---- MODULE Spec2Model ----
(***************************************************************************)
(* FMEA risk assessment script (src/fmea_app.py).                          *)
(*                                                                         *)
(* The script is re-executed from top to bottom on every widget            *)
(* interaction.  The state is the widget state (number of variables, one   *)
(* name and three sliders per variable, the show-low checkbox) together    *)
(* with what the last execution of the script computed.  Every action is   *)
(* one widget interaction followed by the complete execution of the script.*)
(*                                                                         *)
(* Strings are sequences of one-character strings, so that str.strip, the  *)
(* f-strings and ', '.join are modelled by what they do to the characters. *)
(***************************************************************************)
EXTENDS Integers, Sequences, FiniteSets, TLC

(* ---- bounds of the model ---- *)
\* largest "Number of variables" explored by Spec (the widget allows 30)
MaxVars == 4
\* largest "Number of variables" explored by SpecScore
MaxScoreVars == 2

(* ---- constants of the program ---- *)
NumVarsMin == 1
NumVarsMax == 30
NumVarsDefault == 5
SliderMin == 1
SliderMax == 10
SliderDefault == 5
LowMax == 100
MediumMin == 101
MediumMax == 200

VARIABLES
    num_vars,           \* st.number_input "Number of variables to assess"
    var_name,           \* var_name[i]: text of st.text_input key var_{i-1}
    sev, occ, det,      \* slider values, keys sev_{i-1}, occ_{i-1}, det_{i-1}
    show_low,           \* st.checkbox "Show Low Risk Variables"
    validation_errors,  \* list of messages built by the last execution
    variables,          \* list of (trimmed or fallback) names built by the last execution
    df,                 \* None, or Some(scored table)
    heatmap_data,       \* None, or Some(pivot table)
    doe_vars,           \* None, or Some(rows of df with Medium/High risk)
    low_vars,           \* None, or Some(rows of df with Low risk)
    rpn_arg,            \* argument of the last direct call of risk_level
    risk_ret            \* value returned by that call

vars == <<num_vars, var_name, sev, occ, det, show_low, validation_errors, variables,
          df, heatmap_data, doe_vars, low_vars, rpn_arg, risk_ret>>

widgets == <<num_vars, var_name, sev, occ, det, show_low>>

(* ---- generic helpers ---- *)
None == <<>>
Some(x) == <<x>>

Range(s) == {s[i] : i \in DOMAIN s}

Min(a, b) == IF a <= b THEN a ELSE b

RECURSIVE Gcd(_, _)
Gcd(a, b) == IF b = 0 THEN a ELSE Gcd(b, a % b)

\* the elements of a finite set of integers in increasing order
RECURSIVE SortedSeq(_)
SortedSeq(S) ==
    IF S = {} THEN <<>>
    ELSE LET m == CHOOSE x \in S : \A y \in S : x <= y
         IN <<m>> \o SortedSeq(S \ {m})

(* ---- Python string operations ---- *)
Whitespace == {" ", "\t", "\n"}

RECURSIVE lstrip(_)
lstrip(s) == IF s # <<>> /\ Head(s) \in Whitespace THEN lstrip(Tail(s)) ELSE s

RECURSIVE rstrip(_)
rstrip(s) ==
    IF s # <<>> /\ s[Len(s)] \in Whitespace THEN rstrip(SubSeq(s, 1, Len(s) - 1)) ELSE s

\* str.strip(): leading and trailing whitespace removed, inner whitespace kept
strip_lead_only(s) == lstrip(s)
strip(s) == rstrip(lstrip(s))

DecimalDigits == <<"0", "1", "2", "3", "4", "5", "6", "7", "8", "9">>

\* str(n) for n >= 0
RECURSIVE str(_)
str(n) ==
    IF n < 10 THEN <<DecimalDigits[n + 1]>>
    ELSE str(n \div 10) \o <<DecimalDigits[(n % 10) + 1]>>

\* sep.join(list)
RECURSIVE join(_, _)
join(sep, list) ==
    IF list = <<>> THEN <<>>
    ELSE IF Len(list) = 1 THEN list[1]
    ELSE list[1] \o sep \o join(sep, Tail(list))

\* list.count(x)
count(list, x) == Cardinality({i \in DOMAIN list : list[i] = x})

(* ---- string literals of the script ---- *)
VariablePrefix == <<"V", "a", "r", "i", "a", "b", "l", "e", " ">>

EmptyNameSuffix ==
    <<" ", "n", "a", "m", "e", " ", "c", "a", "n", "n", "o", "t", " ", "b", "e", " ",
      "e", "m", "p", "t", "y", " ", "o", "r", " ",
      "w", "h", "i", "t", "e", "s", "p", "a", "c", "e", ".">>

DuplicatePrefix ==
    <<"D", "u", "p", "l", "i", "c", "a", "t", "e", " ",
      "v", "a", "r", "i", "a", "b", "l", "e", " ",
      "n", "a", "m", "e", "s", " ", "f", "o", "u", "n", "d", ":", " ">>

CommaSpace == <<",", " ">>

\* f"Variable {i+1}" with pos = i+1
FallbackName(pos) == VariablePrefix \o str(pos)

\* f"Variable {i+1} name cannot be empty or whitespace." with pos = i+1
EmptyNameError(pos) == VariablePrefix \o str(pos) \o EmptyNameSuffix

\* f"Duplicate variable names found: {', '.join(duplicates)}"
DuplicateError(duplicates) == DuplicatePrefix \o join(CommaSpace, duplicates)

(* ---- the input loop ---- *)
\* Iterations pos..Len(names) of "for i in range(num_vars)" (pos = i+1), started with
\* the lists errs and vs built so far.
RECURSIVE InputLoopFrom(_, _, _, _)
InputLoopFrom(pos, names, errs, vs) ==
    IF pos > Len(names)
    THEN [validation_errors |-> errs, variables |-> vs]
    ELSE LET stripped == strip(names[pos])
         IN InputLoopFrom(
                pos + 1, names,
                IF stripped = <<>> THEN Append(errs, EmptyNameError(pos)) ELSE errs,
                Append(vs, IF stripped # <<>> THEN stripped ELSE FallbackName(pos)))

InputLoopFirstErrorOnly(names) ==
    LET r == InputLoopFrom(1, names, <<>>, <<>>)
    IN [validation_errors |-> IF r.validation_errors = <<>> THEN <<>>
                              ELSE <<r.validation_errors[1]>>,
        variables |-> r.variables]
InputLoop(names) == InputLoopFrom(1, names, <<>>, <<>>)

(* ---- the duplicate check ---- *)
\* every order in which a Python set with the elements S can be iterated
SetIterations(S) == {f \in [1..Cardinality(S) -> S] : Range(f) = S}

\* [var for var in set(variables) if variables.count(var) > 1]: the iteration order of
\* a set of str depends on the hash seed of the interpreter process, so every order
\* of the selected names is a possible value of the list.  (Filtering an arbitrary
\* iteration order of the set gives an arbitrary order of the selected elements.)
DuplicatesAdjacentOnly(vs) ==
    SetIterations({vs[i] : i \in {j \in 1..(Len(vs) - 1) : vs[j] = vs[j + 1]}})
Duplicates(vs) == SetIterations({v \in Range(vs) : count(vs, v) > 1})

\* validation_errors after "if duplicates: validation_errors.append(...)"
WithDuplicateError(errs, duplicates) ==
    IF duplicates # <<>> THEN Append(errs, DuplicateError(duplicates)) ELSE errs

\* "if validation_errors: ... st.stop()"
StopsOnEmptyNameOnly(errs) == errs # <<>> /\ SubSeq(errs[1], 1, 1) = <<"V">>
Stops(errs) == errs # <<>>

(* ---- scoring ---- *)
\* pd.DataFrame({...}): one row per entry, default integer index 0..n-1
DataFrame(vs, severity, occurrence, detectability) ==
    [i \in 1..Len(vs) |->
        [index |-> i - 1, Variable |-> vs[i], Severity |-> severity[i],
         Occurrence |-> occurrence[i], Detectability |-> detectability[i]]]

\* one element of df["Severity"] * df["Occurrence"] * df["Detectability"]
RPNSum(s, o, d) == s * o + d
RPN(s, o, d) == s * o * d

risk_level_strict(rpn) ==
    IF rpn < LowMax THEN "Low"
    ELSE IF MediumMin <= rpn /\ rpn <= MediumMax THEN "Medium"
    ELSE "High"
risk_level(rpn) ==
    IF rpn <= LowMax THEN "Low"
    ELSE IF MediumMin <= rpn /\ rpn <= MediumMax THEN "Medium"
    ELSE "High"

\* df after the columns "RPN" and "Risk Level" are assigned
Scored(frame) ==
    [i \in DOMAIN frame |->
        LET r == frame[i]
            rpn == RPN(r.Severity, r.Occurrence, r.Detectability)
        IN [index |-> r.index, Variable |-> r.Variable, Severity |-> r.Severity,
            Occurrence |-> r.Occurrence, Detectability |-> r.Detectability,
            RPN |-> rpn, RiskLevel |-> risk_level(rpn)]]

(* ---- the heatmap pivot ---- *)
\* a float that holds the quotient of two integers, as the fraction in lowest terms
Quotient(n, d) == LET g == Gcd(n, d) IN [num |-> n \div g, den |-> d \div g]
NaN == [num |-> 0, den |-> 0]

RECURSIVE SumRPN(_)
SumRPN(rows) == IF rows = <<>> THEN 0 ELSE Head(rows).RPN + SumRPN(Tail(rows))

\* np.mean over the RPN of a non-empty group of rows
Mean(rows) == Quotient(SumRPN(rows), Len(rows))

\* the rows of one (Severity, Occurrence) group
GroupBySeverityOnly(frame, s, o) == SelectSeq(frame, LAMBDA r : r.Severity = s)
Group(frame, s, o) == SelectSeq(frame, LAMBDA r : r.Severity = s /\ r.Occurrence = o)

\* df.pivot_table(index='Severity', columns='Occurrence', values='RPN', aggfunc=np.mean):
\* the rows are the severities that occur, the columns the occurrences that occur, both
\* sorted; the cell of a pair that no row has is NaN.
pivot_table_zero_fill(frame) ==
    LET S == {frame[i].Severity : i \in DOMAIN frame}
        O == {frame[i].Occurrence : i \in DOMAIN frame}
    IN [index |-> SortedSeq(S),
        columns |-> SortedSeq(O),
        cells |-> [p \in S \X O |->
                    IF Group(frame, p[1], p[2]) = <<>> THEN Quotient(0, 1)
                    ELSE Mean(Group(frame, p[1], p[2]))]]
pivot_table(frame) ==
    LET S == {frame[i].Severity : i \in DOMAIN frame}
        O == {frame[i].Occurrence : i \in DOMAIN frame}
    IN [index |-> SortedSeq(S),
        columns |-> SortedSeq(O),
        cells |-> [p \in S \X O |->
                    IF Group(frame, p[1], p[2]) = <<>> THEN NaN
                    ELSE Mean(Group(frame, p[1], p[2]))]]

(* ---- the DoE selection ---- *)
\* df[df["Risk Level"].isin(["Medium", "High"])]
DoeVarsHighOnly(frame) == SelectSeq(frame, LAMBDA r : r.RiskLevel = "High")
DoeVars(frame) == SelectSeq(frame, LAMBDA r : r.RiskLevel \in {"Medium", "High"})

\* df[df["Risk Level"] == "Low"]
LowVars(frame) == SelectSeq(frame, LAMBDA r : r.RiskLevel = "Low")

(* ---- one execution of the script ---- *)
\* The script run on the widget values nv, names, s, o, d, sl.  A run that stops at
\* st.stop() renders no checkbox, and Streamlit discards the state of a widget that a
\* run does not render, so the checkbox is back at its default afterwards.
RunScript(nv, names, s, o, d, sl) ==
    LET loop == InputLoop(names)
    IN \E duplicates \in Duplicates(loop.variables) :
        LET errs == WithDuplicateError(loop.validation_errors, duplicates)
            frame == Scored(DataFrame(loop.variables, s, o, d))
        IN /\ num_vars' = nv
           /\ var_name' = names
           /\ sev' = s
           /\ occ' = o
           /\ det' = d
           /\ validation_errors' = errs
           /\ variables' = loop.variables
           /\ IF Stops(errs)
              THEN /\ show_low' = FALSE
                   /\ df' = None
                   /\ heatmap_data' = None
                   /\ doe_vars' = None
                   /\ low_vars' = None
              ELSE /\ show_low' = sl
                   /\ df' = Some(frame)
                   /\ heatmap_data' = Some(pivot_table(frame))
                   /\ doe_vars' = Some(DoeVars(frame))
                   /\ low_vars' = IF sl THEN Some(LowVars(frame)) ELSE None
           /\ UNCHANGED <<rpn_arg, risk_ret>>

\* the state that an execution of the script leaves, as a predicate on unprimed variables
ScriptResult ==
    LET loop == InputLoop(var_name)
    IN \E duplicates \in Duplicates(loop.variables) :
        LET errs == WithDuplicateError(loop.validation_errors, duplicates)
            frame == Scored(DataFrame(loop.variables, sev, occ, det))
        IN /\ validation_errors = errs
           /\ variables = loop.variables
           /\ IF Stops(errs)
              THEN /\ show_low = FALSE
                   /\ df = None
                   /\ heatmap_data = None
                   /\ doe_vars = None
                   /\ low_vars = None
              ELSE /\ df = Some(frame)
                   /\ heatmap_data = Some(pivot_table(frame))
                   /\ doe_vars = Some(DoeVars(frame))
                   /\ low_vars = IF show_low THEN Some(LowVars(frame)) ELSE None

(* ---- inputs ---- *)
\* the texts typed into a name field
RawNames ==
    { <<>>, <<" ">>, <<"T">>, <<" ", "T", " ">>, <<"t">>, FallbackName(2) }

\* a list resized to n elements: cut, or filled with the widget default
Resized(list, n, default) ==
    [i \in 1..n |-> IF i <= Len(list) THEN list[i] ELSE default]

(* ---- Spec: the name fields and the number of variables ---- *)
Init ==
    /\ num_vars = Min(NumVarsDefault, MaxVars)
    /\ var_name = [i \in 1..num_vars |-> <<>>]
    /\ sev = [i \in 1..num_vars |-> SliderDefault]
    /\ occ = [i \in 1..num_vars |-> SliderDefault]
    /\ det = [i \in 1..num_vars |-> SliderDefault]
    /\ show_low = FALSE
    /\ rpn_arg = NumVarsMin
    /\ risk_ret = risk_level(rpn_arg)
    /\ ScriptResult

\* the user changes "Number of variables to assess"
SetNumVars ==
    \E n \in NumVarsMin..Min(NumVarsMax, MaxVars) :
        /\ n # num_vars
        /\ RunScript(n, Resized(var_name, n, <<>>), Resized(sev, n, SliderDefault),
                     Resized(occ, n, SliderDefault), Resized(det, n, SliderDefault),
                     show_low)

\* the user edits one name field
SetName ==
    \E i \in 1..num_vars, nm \in RawNames :
        /\ nm # var_name[i]
        /\ RunScript(num_vars, [var_name EXCEPT ![i] = nm], sev, occ, det, show_low)

\* the user toggles the checkbox, which only a run that did not stop renders
ToggleShowLow ==
    /\ ~Stops(validation_errors)
    /\ RunScript(num_vars, var_name, sev, occ, det, ~show_low)

\* the same widget values are submitted to a fresh interpreter process (the server
\* was restarted and the page reconnects, or another replica serves the session)
RerunInNewProcess ==
    RunScript(num_vars, var_name, sev, occ, det, show_low)

Next == SetNumVars \/ SetName \/ ToggleShowLow \/ RerunInNewProcess

Spec == Init /\ [][Next]_vars

(* ---- SpecScore: the sliders, with valid names ---- *)
\* slider positions explored when several variables are assessed together
SeveritySample == {5, 8}
OccurrenceSample == {5, 8}
DetectabilitySample == {2, 5, 7, 8}

\* the name typed for entry pos: "T1", "T2", ...
TypedName(pos) == <<"T">> \o str(pos)

\* the page with n variables named and every slider still at its default
InitNamed(n) ==
    /\ num_vars = n
    /\ var_name = [i \in 1..n |-> TypedName(i)]
    /\ sev = [i \in 1..n |-> SliderDefault]
    /\ occ = [i \in 1..n |-> SliderDefault]
    /\ det = [i \in 1..n |-> SliderDefault]
    /\ show_low = FALSE
    /\ rpn_arg = NumVarsMin
    /\ risk_ret = risk_level(rpn_arg)
    /\ ScriptResult

InitScore == \E n \in NumVarsMin..MaxScoreVars : InitNamed(n)

\* the user moves one slider to a position in the set V
SetSeverity(V) ==
    \E i \in 1..num_vars, v \in V :
        /\ v # sev[i]
        /\ RunScript(num_vars, var_name, [sev EXCEPT ![i] = v], occ, det, show_low)

SetOccurrence(V) ==
    \E i \in 1..num_vars, v \in V :
        /\ v # occ[i]
        /\ RunScript(num_vars, var_name, sev, [occ EXCEPT ![i] = v], det, show_low)

SetDetectability(V) ==
    \E i \in 1..num_vars, v \in V :
        /\ v # det[i]
        /\ RunScript(num_vars, var_name, sev, occ, [det EXCEPT ![i] = v], show_low)

NextScore ==
    \/ SetSeverity(SeveritySample)
    \/ SetOccurrence(OccurrenceSample)
    \/ SetDetectability(DetectabilitySample)
    \/ ToggleShowLow

SpecScore == InitScore /\ [][NextScore]_vars

(* ---- SpecRpn: one variable, every slider position ---- *)
SliderRange == SliderMin..SliderMax

NextRpn ==
    \/ SetSeverity(SliderRange)
    \/ SetOccurrence(SliderRange)
    \/ SetDetectability(SliderRange)

SpecRpn == InitNamed(NumVarsMin) /\ [][NextRpn]_vars

(* ---- SpecRisk: risk_level called on every integer an RPN can be ---- *)
CallRiskLevel ==
    \E rpn \in RPN(SliderMin, SliderMin, SliderMin)..RPN(SliderMax, SliderMax, SliderMax) :
        /\ rpn_arg' = rpn
        /\ risk_ret' = risk_level(rpn)
        /\ UNCHANGED <<widgets, validation_errors, variables, df, heatmap_data,
                       doe_vars, low_vars>>

NextRisk == CallRiskLevel

SpecRisk == InitNamed(NumVarsMin) /\ [][NextRisk]_vars

(* ======================================================================= *)
(* Properties                                                              *)
(* ======================================================================= *)

(* ---- what the properties say about the inputs, stated without the script ---- *)
NonBlankPositions(s) == {i \in DOMAIN s : s[i] \notin Whitespace}

\* the text has no character other than whitespace
Blank(s) == NonBlankPositions(s) = {}

\* the text from its first to its last non-whitespace character
Trimmed(s) ==
    IF Blank(s) THEN <<>>
    ELSE LET first == CHOOSE i \in NonBlankPositions(s) :
                          \A j \in NonBlankPositions(s) : i <= j
             last == CHOOSE i \in NonBlankPositions(s) :
                          \A j \in NonBlankPositions(s) : j <= i
         IN SubSeq(s, first, last)

Entries == 1..num_vars

BlankEntries == {i \in Entries : Blank(var_name[i])}

\* the name duplicate detection sees for entry i
EffectiveName(i) ==
    IF Blank(var_name[i]) THEN VariablePrefix \o str(i) ELSE Trimmed(var_name[i])

\* the names that more than one entry has
RepeatedNames ==
    {EffectiveName(i) : i \in {k \in Entries :
                                 \E j \in Entries : j # k /\ EffectiveName(j) = EffectiveName(k)}}

IsDuplicateMessage(m) ==
    /\ Len(m) >= Len(DuplicatePrefix)
    /\ SubSeq(m, 1, Len(DuplicatePrefix)) = DuplicatePrefix

DuplicateMessages == {j \in DOMAIN validation_errors : IsDuplicateMessage(validation_errors[j])}

Produced(x) == x # None

\* C1: a run whose input has an empty trimmed name or a duplicated name records an
\* error, halts, and produces none of the scored table, the heatmap aggregate, the
\* DoE subset and the low-risk subset; a run whose input has neither records no error
\* and produces the scored table, the aggregate and the DoE subset.
C1_GateBlocksAllOutputs ==
    LET invalid == BlankEntries # {} \/ RepeatedNames # {}
    IN /\ invalid <=> validation_errors # <<>>
       /\ validation_errors # <<>> =>
            ~Produced(df) /\ ~Produced(heatmap_data) /\ ~Produced(doe_vars)
            /\ ~Produced(low_vars)
       /\ validation_errors = <<>> =>
            Produced(df) /\ Produced(heatmap_data) /\ Produced(doe_vars)

\* a run halted by a duplicated name alone
C1_Witness ==
    /\ BlankEntries = {}
    /\ RepeatedNames # {}
    /\ validation_errors # <<>>
    /\ ~Produced(df)

\* C2: the error list holds, first, one empty-name error per entry whose trimmed name
\* is empty, naming its 1-based position, in increasing entry order; then nothing, or
\* the duplicate-names error as the last element.  Entries "Temp", empty, "Temp" give
\* exactly the empty-name error of position 2 followed by the duplicate error on "Temp".
C2_AllErrorsInOrder ==
    LET blanks == SortedSeq(BlankEntries)
        k == Len(blanks)
        n == Len(validation_errors)
    IN /\ n \in {k, k + 1}
       /\ \A j \in 1..k :
            validation_errors[j] = VariablePrefix \o str(blanks[j]) \o EmptyNameSuffix
       /\ DuplicateMessages \subseteq {k + 1}
       /\ n = k + 1 => DuplicateMessages = {n}
       /\ (/\ num_vars = 3
           /\ Trimmed(var_name[1]) = <<"T">>
           /\ Blank(var_name[2])
           /\ Trimmed(var_name[3]) = <<"T">>)
          => validation_errors =
                << VariablePrefix \o <<"2">> \o EmptyNameSuffix,
                   DuplicatePrefix \o <<"T">> >>

\* entries "T", " ", "T": two errors
C2_Witness ==
    /\ num_vars = 3
    /\ var_name = << <<"T">>, <<" ">>, <<"T">> >>
    /\ Len(validation_errors) = 2
    /\ DuplicateMessages = {2}

\* C3: at most one duplicate-names error is emitted; it is emitted exactly when some
\* name (trimmed, or the fallback "Variable N" of an empty entry, compared
\* case-sensitively) belongs to more than one entry; and it lists each such name once
\* and no other name.  A typed "Variable 2" with an empty entry 2 is a duplicate;
\* "T" and "t" are not.
C3_DuplicateErrorExact ==
    /\ Cardinality(DuplicateMessages) <= 1
    /\ DuplicateMessages # {} <=> RepeatedNames # {}
    /\ \A j \in DuplicateMessages :
          \E listing \in SetIterations(RepeatedNames) :
              validation_errors[j] = DuplicatePrefix \o join(CommaSpace, listing)
    /\ (\E i \in Entries : i # 2 /\ num_vars >= 2 /\ Blank(var_name[2])
                           /\ Trimmed(var_name[i]) = VariablePrefix \o <<"2">>)
          => DuplicateMessages # {}
    /\ (num_vars = 2 /\ var_name = << <<"T">>, <<"t">> >>) => DuplicateMessages = {}

\* entry 1 typed "Variable 2", entry 2 empty: the duplicate error lists "Variable 2"
C3_Witness ==
    /\ num_vars = 2
    /\ var_name[1] = VariablePrefix \o <<"2">>
    /\ Blank(var_name[2])
    /\ Len(validation_errors) = 2
    /\ validation_errors[2] = DuplicatePrefix \o VariablePrefix \o <<"2">>

\* C4: every row of the scored table has RPN = severity * occurrence * detectability
\* of its entry, with the three ratings in 1..10 and 1 <= RPN <= 1000.
C4_RpnIsProduct ==
    Produced(df) =>
        \A i \in Entries :
            /\ sev[i] \in 1..10 /\ occ[i] \in 1..10 /\ det[i] \in 1..10
            /\ df[1][i].RPN = sev[i] * occ[i] * det[i]
            /\ 1 <= df[1][i].RPN
            /\ df[1][i].RPN <= 1000

\* the largest product
C4_Witness ==
    /\ Produced(df)
    /\ sev[1] = 10 /\ occ[1] = 10 /\ det[1] = 10
    /\ df[1][1].RPN = 1000

\* C5: on every integer 1..1000 risk_level returns one of Low, Medium, High: Low
\* exactly when rpn <= 100, Medium exactly when 100 < rpn <= 200, High exactly when
\* rpn > 200.
C5_RiskLevelThresholds ==
    /\ rpn_arg \in 1..1000
    /\ risk_ret \in {"Low", "Medium", "High"}
    /\ risk_ret = "Low" <=> rpn_arg <= 100
    /\ risk_ret = "Medium" <=> (100 < rpn_arg /\ rpn_arg <= 200)
    /\ risk_ret = "High" <=> rpn_arg > 200
    /\ rpn_arg = 100 => risk_ret = "Low"
    /\ rpn_arg = 101 => risk_ret = "Medium"
    /\ rpn_arg = 200 => risk_ret = "Medium"
    /\ rpn_arg = 201 => risk_ret = "High"

\* the boundary rpn = 100
C5_Witness == rpn_arg = 100 /\ risk_ret = "Low"

\* the rows of the scored table that `part` holds, as the set of their index labels
IndexLabels(part) == {part[k].index : k \in DOMAIN part}

\* `part` holds exactly the rows of `table` whose risk level is in `levels`, each once,
\* in the order of the table
IsSelection(part, table, levels) ==
    /\ \A k \in DOMAIN part :
          /\ part[k].index + 1 \in DOMAIN table
          /\ part[k] = table[part[k].index + 1]
          /\ part[k].RiskLevel \in levels
    /\ \A k \in DOMAIN part : \A m \in DOMAIN part : k < m => part[k].index < part[m].index
    /\ \A i \in DOMAIN table : table[i].RiskLevel \in levels => (i - 1) \in IndexLabels(part)

\* C6: in a validated run the DoE subset holds exactly the Medium and High rows and
\* the low-risk subset (computed when the checkbox is ticked) exactly the Low rows,
\* each in input order; the two are disjoint, every entry is in exactly one of them,
\* and the sizes add up to num_vars.
C6_DoePartition ==
    Produced(df) =>
        LET table == df[1]
            lows == {i \in DOMAIN table : table[i].RiskLevel = "Low"}
        IN /\ Len(table) = num_vars
           /\ Produced(doe_vars)
           /\ IsSelection(doe_vars[1], table, {"Medium", "High"})
           /\ Len(doe_vars[1]) + Cardinality(lows) = num_vars
           /\ show_low <=> Produced(low_vars)
           /\ Produced(low_vars) =>
                /\ IsSelection(low_vars[1], table, {"Low"})
                /\ IndexLabels(doe_vars[1]) \cap IndexLabels(low_vars[1]) = {}
                /\ IndexLabels(doe_vars[1]) \cup IndexLabels(low_vars[1]) = 0..(num_vars - 1)
                /\ Len(doe_vars[1]) + Len(low_vars[1]) = num_vars

\* both subsets computed and non-empty
C6_Witness ==
    /\ Produced(doe_vars)
    /\ Produced(low_vars)
    /\ doe_vars[1] # <<>>
    /\ low_vars[1] # <<>>

\* the entries that have severity s and occurrence o
EntriesAt(s, o) == {i \in Entries : sev[i] = s /\ occ[i] = o}

ObservedPairs == {<<sev[i], occ[i]>> : i \in Entries}

RECURSIVE RpnTotal(_)
RpnTotal(I) ==
    IF I = {} THEN 0
    ELSE LET i == CHOOSE x \in I : TRUE
         IN sev[i] * occ[i] * det[i] + RpnTotal(I \ {i})

\* C7: in a validated run the aggregate value of every (severity, occurrence) pair
\* that some entry has is the mean of the RPN of exactly the entries with that pair:
\* value * count = sum.  Two entries at (5,5) with RPN 125 and 175 give 150.
C7_AggregateIsMean ==
    Produced(heatmap_data) =>
        /\ \A p \in ObservedPairs :
              /\ p \in DOMAIN heatmap_data[1].cells
              /\ LET value == heatmap_data[1].cells[p]
                     group == EntriesAt(p[1], p[2])
                 IN /\ value.den > 0
                    /\ value.num * Cardinality(group) = RpnTotal(group) * value.den
        /\ (num_vars = 2 /\ sev = <<5, 5>> /\ occ = <<5, 5>> /\ det = <<5, 7>>)
              => heatmap_data[1].cells[<<5, 5>>] = [num |-> 150, den |-> 1]

\* entries (5,5,5) and (5,5,7) next to no other entry: the (5,5) cell is 150
C7_Witness ==
    /\ Produced(heatmap_data)
    /\ num_vars = 2 /\ sev = <<5, 5>> /\ occ = <<5, 5>> /\ det = <<5, 7>>
    /\ heatmap_data[1].cells[<<5, 5>>] = [num |-> 150, den |-> 1]

\* C8 as stated: in a validated run the keys of the aggregate are exactly the
\* (severity, occurrence) pairs that some entry has, so a pair without entries has no
\* entry in the aggregate, null or otherwise.
C8_KeysAreObservedPairs ==
    Produced(heatmap_data) => DOMAIN heatmap_data[1].cells = ObservedPairs

\* C8 amended: in a validated run the rows of the aggregate are exactly the severities
\* and its columns exactly the occurrences that some entry has; exactly the pairs
\* that some entry has hold a mean, and every other pair of a row and a column holds
\* NaN, never zero.
C8_UnobservedPairsAreNaN ==
    Produced(heatmap_data) =>
        LET table == heatmap_data[1]
        IN /\ Range(table.index) = {sev[i] : i \in Entries}
           /\ Range(table.columns) = {occ[i] : i \in Entries}
           /\ DOMAIN table.cells = Range(table.index) \X Range(table.columns)
           /\ \A p \in DOMAIN table.cells :
                 /\ p \in ObservedPairs <=> table.cells[p] # NaN
                 /\ p \notin ObservedPairs => table.cells[p].den = 0
                 /\ p \in ObservedPairs => table.cells[p].num > 0

\* entries (8,8,8) and (5,5,2): means at (8,8) and (5,5), NaN at (8,5) and (5,8)
C8_Witness ==
    /\ Produced(heatmap_data)
    /\ num_vars = 2 /\ sev = <<8, 5>> /\ occ = <<8, 5>> /\ det = <<8, 2>>
    /\ heatmap_data[1].cells[<<8, 8>>] = [num |-> 512, den |-> 1]
    /\ heatmap_data[1].cells[<<5, 5>>] = [num |-> 50, den |-> 1]
    /\ heatmap_data[1].cells[<<8, 5>>] = NaN
    /\ heatmap_data[1].cells[<<5, 8>>] = NaN

\* C9: two executions on the same ordered entries return the same ordered list of
\* error messages, the order of the names inside the duplicate error included.
C9_SameEntriesSameErrors ==
    [][(num_vars' = num_vars /\ var_name' = var_name /\ sev' = sev /\ occ' = occ
        /\ det' = det)
       => validation_errors' = validation_errors]_vars

\* C10: a run passes the gate exactly when every trimmed input name is non-empty and
\* the trimmed names are pairwise distinct; and then the scored table has num_vars
\* rows, in input order, whose names are the trimmed inputs, non-empty and pairwise
\* distinct.
C10_ValidatedRunShape ==
    LET valid == /\ \A i \in Entries : ~Blank(var_name[i])
                 /\ \A i \in Entries : \A j \in Entries :
                        i # j => Trimmed(var_name[i]) # Trimmed(var_name[j])
    IN /\ Produced(df) <=> valid
       /\ Produced(df) <=> validation_errors = <<>>
       /\ Produced(df) =>
            LET table == df[1]
            IN /\ Len(table) = num_vars
               /\ \A i \in Entries :
                     /\ table[i].index = i - 1
                     /\ table[i].Variable = Trimmed(var_name[i])
                     /\ table[i].Variable # <<>>
                     /\ table[i].Severity = sev[i]
                     /\ table[i].Occurrence = occ[i]
                     /\ table[i].Detectability = det[i]
               /\ \A i \in Entries : \A j \in Entries :
                     i # j => table[i].Variable # table[j].Variable

\* a validated run of several entries, one of them typed with surrounding blanks
C10_Witness ==
    /\ Produced(df)
    /\ num_vars >= 2
    /\ \E i \in Entries : var_name[i] # Trimmed(var_name[i])

====
